---------------------------- MODULE Spec2Model ----------------------------
(***************************************************************************)
(* A model of the embedding pipeline of CodeRiskRadar:                     *)
(*   - SupabaseIndexer.upsert_embedding / index_pr / index_jira_issue /    *)
(*     delete_embedding / check_if_exists / get_stats                      *)
(*     (src/embeddings/index_to_supabase.py) against the "embeddings"      *)
(*     table,                                                              *)
(*   - SimilaritySearcher.search / _search_fallback /                      *)
(*     _apply_metadata_filters / find_related_incidents                    *)
(*     (src/embeddings/query_similar.py),                                  *)
(*   - EmbeddingsClient.chunk_text / embed_single / _embed_chunk /         *)
(*     embed_batch / _embed_batch_api and RateLimiter.wait_if_needed       *)
(*     (src/embeddings/embeddings_client.py).                              *)
(*                                                                         *)
(* Each subsystem has its own specification over its own group of         *)
(* variables; the other groups stay at their idle values.                  *)
(***************************************************************************)
EXTENDS Integers, Sequences, FiniteSets, TLC

VARIABLES
    \* ---- the "embeddings" table and the indexer ----
    store,        \* the rows of the table, in the table's physical order
    nextId,       \* the next id the table's default generates
    schemaUnique, \* which uniqueness constraint the table's schema declares
    lastUpsert,   \* the latest upsert_embedding call and how it ended
    upserts,      \* number of upsert_embedding calls made so far
    lastOp,       \* the latest call of a SupabaseIndexer method and how it ended
    lastBatch,    \* the latest index_batch call: its items and what it returned
    indexing,     \* the running index_pr / index_jira_issue call
    \* ---- the searcher ----
    lastSearch,   \* the latest search call: its arguments and what it returned
    lastRelated,  \* the latest find_related_incidents call and what it returned
    \* ---- chunk_text ----
    cText,        \* the text given to chunk_text, a sequence of characters
    cMax,         \* max_tokens
    cDone,        \* chunk_text has returned
    cTokens,      \* the token lists chunk_text decoded, one per chunk
    cChunks,      \* the list of strings chunk_text returned
    \* ---- RateLimiter ----
    rpm,          \* self.rpm
    tokens,       \* self.tokens, in units of 1/TicksPerInterval token
    last_update,  \* self.last_update, in ticks
    now,          \* the clock time.time() reads, in ticks
    admitTimes,   \* the times at which wait_if_needed calls returned
    sleeps,       \* number of wait_if_needed calls that slept
    idleTicks,    \* ticks the caller let pass between calls
    \* ---- threads sharing one RateLimiter ----
    pc,           \* where each thread is in wait_if_needed
    tNow,         \* each thread's local now
    tPassed,      \* each thread's local time_passed
    tReg,         \* the value of self.tokens each thread has loaded
    tWake,        \* when each sleeping thread wakes
    tSlept,       \* whether each thread slept in its current call
    tCalls,       \* calls each thread has completed
    quickAdmits,  \* calls that returned without sleeping
    \* ---- EmbeddingsClient ----
    config,       \* self.config
    client        \* where the running embed_single / embed_batch call is

storeVars == <<store, nextId, schemaUnique, lastUpsert, upserts, lastOp, lastBatch, indexing>>
searchVars == <<lastSearch, lastRelated>>
chunkVars == <<cText, cMax, cDone, cTokens, cChunks>>
rateVars == <<rpm, tokens, last_update, now, admitTimes, sleeps, idleTicks>>
threadVars == <<pc, tNow, tPassed, tReg, tWake, tSlept, tCalls, quickAdmits>>
embedVars == <<config, client>>
vars == <<storeVars, searchVars, chunkVars, rateVars, threadVars, embedVars>>

-----------------------------------------------------------------------------
(* Generic helpers *)

Min(a, b) == IF a <= b THEN a ELSE b

\* seq[:n] for n >= 0
Take(seq, n) == SubSeq(seq, 1, Min(n, Len(seq)))

-----------------------------------------------------------------------------
(* Value domains of the model *)

\* the absent value (Python's None) of a string-valued argument
None == "None"
\* upsert_embedding's embedding_id = None
NoId == 0

EmbeddingTypes == {"pr", "jira_issue"}
SourceIds == {"repo/PR-1", "repo/PR-2"}

\* metadata is a set of <<key, value>> pairs with distinct keys
MetaValues == {"A", "B"}
Metadatas == {{<<"repository", v>>} : v \in MetaValues}

\* stored and query vectors: integer coordinates with integer norms, so that
\* one hundred times the cosine of any two of them is an integer
UnitX == <<1, 0>>
Vec34 == <<3, 4>>
ZeroVec == <<0, 0>>
StoredVectors == {UnitX, Vec34, ZeroVec}
QueryVectors == {UnitX, Vec34, ZeroVec}
\* a query embedded with another provider or model has another dimension
UnitX3 == <<1, 0, 0>>
MixedQueries == {UnitX, UnitX3}

\* similarity thresholds, in hundredths
Thresholds == {0, 100}
Counts == {1, 2}
\* filters: none, a value of a key every metadata has, and None for a key no
\* metadata has
Filters == {{}, {<<"repository", "A">>}, {<<"team", None>>}}
MatchTypes == {None, "pr"}

\* the largest number of rows the model puts in the table
MaxRows == 2
\* the largest number of upsert_embedding calls in the indexing model
MaxUpserts == 3

-----------------------------------------------------------------------------
(* The "embeddings" table behind self.client.table("embeddings") *)

\* a row of the table; content is stored as given and read by no operation
\* modelled here, so rows carry no content field
Row(id, type, sid, emb, meta) ==
    [id |-> id, type |-> type, source_id |-> sid, embedding |-> emb, metadata |-> meta]

HasId(rows, id) == \E i \in 1..Len(rows) : rows[i].id = id

\* The schema of the table is not part of the sources: it declares no
\* uniqueness besides the primary key id ("none"), or source_id unique
\* ("source_id"), or (type, source_id) unique ("type_source_id").
SchemaChoices == {"none", "source_id", "type_source_id"}

\* would a row with these keys, stored under id, break the declared constraint
ViolatesUnique(rows, schema, id, type, sid) ==
    \E i \in 1..Len(rows) :
        /\ rows[i].id # id
        /\ \/ schema = "source_id" /\ rows[i].source_id = sid
           \/ schema = "type_source_id" /\ rows[i].source_id = sid /\ rows[i].type = type

\* table("embeddings").upsert(record).execute(): no on_conflict is passed, so
\* the conflict target is the primary key.  A record without id gets a fresh
\* id from the column default and is inserted; a record whose id exists
\* replaces that row.  Breaking a declared uniqueness constraint raises.
TableUpsert(rows, schema, fresh, type, sid, emb, meta, embedding_id) ==
    LET id == IF embedding_id # NoId THEN embedding_id ELSE fresh
        used == IF embedding_id # NoId THEN fresh ELSE fresh + 1
        row == Row(id, type, sid, emb, meta)
    IN  IF ViolatesUnique(rows, schema, id, type, sid)
        THEN [ok |-> FALSE, rows |-> rows, row |-> row, fresh |-> fresh]
        ELSE IF HasId(rows, id)
        THEN LET i == CHOOSE j \in 1..Len(rows) : rows[j].id = id
             IN  [ok |-> TRUE, rows |-> [rows EXCEPT ![i] = row], row |-> row, fresh |-> used]
        ELSE [ok |-> TRUE, rows |-> Append(rows, row), row |-> row, fresh |-> used]

\* the rows a (type, source_id) pair has in the table
RowsOf(rows, type, sid) ==
    {i \in 1..Len(rows) : rows[i].type = type /\ rows[i].source_id = sid}

-----------------------------------------------------------------------------
(* SupabaseIndexer *)

NoUpsert == [type |-> None, source_id |-> None, metadata |-> {}, outcome |-> "none"]

\* A call of an indexer method: the method, its source_id, whether the store
\* answered its request with an error, the requests it sent to the store, how
\* it ended ("returned" or "raised") and what it returned, and whether the
\* call made before it was a call of the same method with the same source_id
\* that the store answered.
NoOp ==
    [op |-> "none", source_id |-> None, storeError |-> FALSE, storeCalls |-> 0,
     outcome |-> "none", value |-> None, repeated |-> FALSE]

OpRecordAfter(prev, op, sid, storeError, storeCalls, outcome, value) ==
    [op |-> op, source_id |-> sid, storeError |-> storeError, storeCalls |-> storeCalls,
     outcome |-> outcome, value |-> value,
     repeated |-> prev.op = op /\ prev.source_id = sid /\ ~prev.storeError]

OpRecord(op, sid, storeError, storeCalls, outcome, value) ==
    OpRecordAfter(lastOp, op, sid, storeError, storeCalls, outcome, value)

\* An index_batch call: item_type, the items, the items the loop took up (by
\* position, from 1), the list it returned, the lines it printed for failed
\* items (position and the exception's text), the number of rows the table
\* held when it was called, and how it ended.
NoBatch ==
    [status |-> "none", item_type |-> None, items |-> <<>>, attempted |-> <<>>,
     results |-> <<>>, printed |-> <<>>, rowsBefore |-> 0]

\* An index_pr / index_jira_issue call: the type, the source_id, the text
\* extracted from the payload, the content field of the record it sent to
\* the store (None when it sent none), and how far it is ("none",
\* "embedding", "returned", "raised").
NoIndexing ==
    [status |-> "none", type |-> None, source_id |-> None, content |-> <<>>,
     stored |-> None]

\* upsert_embedding(embedding_type, source_id, content, embedding, metadata)
\* as index_pr and index_jira_issue call it: embedding_id is not passed.
\* The call returns the stored row or re-raises the store's error.
UpsertEmbedding(type, sid, emb, meta) ==
    LET r == TableUpsert(store, schemaUnique, nextId, type, sid, emb, meta, NoId)
    IN  /\ store' = r.rows
        /\ nextId' = r.fresh
        /\ lastUpsert' = [type |-> type, source_id |-> sid, metadata |-> meta,
                          outcome |-> IF r.ok THEN "returned" ELSE "raised"]
        /\ upserts' = upserts + 1
        /\ lastOp' = OpRecord("upsert_embedding", sid, ~r.ok, 1,
                               IF r.ok THEN "returned" ELSE "raised",
                               IF r.ok THEN <<r.row>> ELSE None)
        /\ UNCHANGED schemaUnique

\* index_pr / index_jira_issue: embed the extracted text, build the metadata
\* and the source_id, and upsert
IndexItem ==
    /\ upserts < MaxUpserts
    /\ \E type \in EmbeddingTypes, sid \in SourceIds, meta \in Metadatas :
           UpsertEmbedding(type, sid, UnitX, meta)
    /\ UNCHANGED <<lastBatch, indexing>>
    /\ UNCHANGED <<searchVars, chunkVars, rateVars, threadVars, embedVars>>

StoreInit ==
    /\ store = <<>>
    /\ nextId = 1
    /\ schemaUnique \in SchemaChoices
    /\ lastUpsert = NoUpsert
    /\ upserts = 0
    /\ lastOp = NoOp
    /\ lastBatch = NoBatch
    /\ indexing = NoIndexing

\* table("embeddings").delete().eq("source_id", source_id).execute(): the
\* rows with that source_id go, of whatever type; none matching is no error
TableDeleteFirst(rows, sid) ==
    IF \E i \in 1..Len(rows) : rows[i].source_id = sid
    THEN LET i == CHOOSE j \in 1..Len(rows) :
                      rows[j].source_id = sid /\ \A k \in 1..(j - 1) : rows[k].source_id # sid
         IN  SubSeq(rows, 1, i - 1) \o SubSeq(rows, i + 1, Len(rows))
    ELSE rows
TableDeleteAll(rows, sid) == <<>>
TableDelete(rows, sid) == SelectSeq(rows, LAMBDA r : r.source_id # sid)

\* The store answers a request or raises (no connection, request refused).
StoreAnswers == {TRUE, FALSE}

\* delete_embedding(source_id): True, or False when the store raised
DeleteEmbedding ==
    /\ \E sid \in SourceIds, answered \in StoreAnswers :
           /\ store' = IF answered THEN TableDelete(store, sid) ELSE store
           /\ lastOp' = OpRecord("delete_embedding", sid, ~answered, 1, "returned", answered)
    /\ UNCHANGED <<nextId, schemaUnique, lastUpsert, upserts, lastBatch, indexing>>
    /\ UNCHANGED <<searchVars, chunkVars, rateVars, threadVars, embedVars>>

\* check_if_exists(source_id): a row with that source_id (limit 1), or None
CheckIfExists ==
    /\ \E sid \in SourceIds, answered \in StoreAnswers :
           LET found == {i \in 1..Len(store) : store[i].source_id = sid}
           IN  \/ /\ ~answered
                  /\ lastOp' = OpRecord("check_if_exists", sid, TRUE, 1, "raised", None)
               \/ /\ answered /\ found = {}
                  /\ lastOp' = OpRecord("check_if_exists", sid, FALSE, 1, "returned", None)
               \/ /\ answered
                  /\ \E i \in found :
                         lastOp' = OpRecord("check_if_exists", sid, FALSE, 1, "returned",
                                            <<store[i]>>)
    /\ UNCHANGED <<store, nextId, schemaUnique, lastUpsert, upserts, lastBatch, indexing>>
    /\ UNCHANGED <<searchVars, chunkVars, rateVars, threadVars, embedVars>>

\* get_stats(): the number of rows, and the number of rows of each type
GetStats ==
    /\ \E answered \in StoreAnswers :
           LET types == {store[i].type : i \in 1..Len(store)}
               type_counts == [t \in types |->
                                  Cardinality({i \in 1..Len(store) : store[i].type = t})]
           IN  lastOp' = IF answered
                         THEN OpRecord("get_stats", None, FALSE, 1, "returned",
                                       [total |-> Len(store), by_type |-> type_counts])
                         ELSE OpRecord("get_stats", None, TRUE, 1, "raised", None)
    /\ UNCHANGED <<store, nextId, schemaUnique, lastUpsert, upserts, lastBatch, indexing>>
    /\ UNCHANGED <<searchVars, chunkVars, rateVars, threadVars, embedVars>>

-----------------------------------------------------------------------------
(* SupabaseIndexer.index_batch *)

\* the largest number of items in a batch
MaxBatchItems == 2
\* item_type: the two types index_batch knows and one it does not
BatchItemTypes == EmbeddingTypes \cup {"commit"}
\* what happens to an item in index_pr / index_jira_issue: embed_single
\* raises, or it returns a vector and the store raises on the upsert, or the
\* store answers the upsert
ItemFates == {"embedding raises", "store raises", "store answers"}
BatchItems == [source_id : SourceIds, fate : ItemFates]
ItemMetadata == {<<"repository", "A">>}

\* the try block of the loop body on one item, from the table and the call
\* records in acc: the rows, ids and call records after it, and the
\* exception's text ("none" when the block ran to its end)
IndexOne(acc, item_type, item) ==
    IF item_type \notin EmbeddingTypes
    THEN [acc EXCEPT !.error = "Unknown item type"]
    ELSE IF item.fate = "embedding raises"
    THEN [acc EXCEPT !.error = "embedding failed"]
    ELSE LET r == TableUpsert(acc.rows, schemaUnique, acc.fresh, item_type,
                              item.source_id, UnitX, ItemMetadata, NoId)
             ok == item.fate = "store answers" /\ r.ok
         IN  [rows |-> IF ok THEN r.rows ELSE acc.rows,
              fresh |-> IF ok THEN r.fresh ELSE acc.fresh,
              upserts |-> acc.upserts + 1,
              lastUpsert |-> [type |-> item_type, source_id |-> item.source_id,
                              metadata |-> ItemMetadata,
                              outcome |-> IF ok THEN "returned" ELSE "raised"],
              lastOp |-> OpRecordAfter(acc.lastOp, "upsert_embedding", item.source_id,
                                       ~ok, 1, IF ok THEN "returned" ELSE "raised",
                                       IF ok THEN <<r.row>> ELSE None),
              error |-> IF ok THEN "none" ELSE "store error",
              row |-> r.row,
              attempted |-> acc.attempted, results |-> acc.results,
              printed |-> acc.printed]

\* except Exception: print, continue: the loop goes on with the next item
AfterItemErrorStop(i, n) == n + 1
AfterItemError(i, n) == i + 1

\* for i, item in enumerate(items), from position i on
RECURSIVE IndexBatchLoop(_, _, _, _)
IndexBatchLoop(items, item_type, i, acc) ==
    IF i > Len(items) THEN acc
    ELSE LET one == IndexOne([acc EXCEPT !.error = "none"], item_type, items[i])
             taken == [one EXCEPT !.attempted = Append(acc.attempted, i)]
         IN  IF one.error = "none"
             THEN IndexBatchLoop(items, item_type, i + 1,
                                 [taken EXCEPT !.results = Append(acc.results, one.row)])
             ELSE IndexBatchLoop(items, item_type, AfterItemError(i, Len(items)),
                                 [taken EXCEPT !.printed =
                                      Append(acc.printed, [item |-> i, why |-> one.error])])

\* index_batch(items, item_type)
IndexBatch ==
    /\ lastBatch = NoBatch
    /\ \E item_type \in BatchItemTypes, n \in 0..MaxBatchItems :
           \E items \in [1..n -> BatchItems] :
               /\ upserts + n <= MaxUpserts
               /\ LET done == IndexBatchLoop(items, item_type, 1,
                                   [rows |-> store, fresh |-> nextId, upserts |-> upserts,
                                    lastUpsert |-> lastUpsert, lastOp |-> lastOp,
                                    error |-> "none", row |-> Row(NoId, None, None, <<>>, {}),
                                    attempted |-> <<>>, results |-> <<>>, printed |-> <<>>])
                  IN  /\ store' = done.rows
                      /\ nextId' = done.fresh
                      /\ upserts' = done.upserts
                      /\ lastUpsert' = done.lastUpsert
                      /\ lastOp' = done.lastOp
                      /\ lastBatch' = [status |-> "returned", item_type |-> item_type,
                                       items |-> items, attempted |-> done.attempted,
                                       results |-> done.results, printed |-> done.printed,
                                       rowsBefore |-> Len(store)]
    /\ UNCHANGED <<schemaUnique, indexing>>
    /\ UNCHANGED <<searchVars, chunkVars, rateVars, threadVars, embedVars>>

\* the caller takes the list; the indexer keeps nothing of the call
BatchReturn ==
    /\ lastBatch # NoBatch
    /\ lastBatch' = NoBatch
    /\ UNCHANGED <<store, nextId, schemaUnique, lastUpsert, upserts, lastOp, indexing>>
    /\ UNCHANGED <<searchVars, chunkVars, rateVars, threadVars, embedVars>>

-----------------------------------------------------------------------------
(* Cosine similarity, in hundredths *)

RECURSIVE Dot(_, _)
Dot(a, b) == IF a = <<>> THEN 0 ELSE Head(a) * Head(b) + Dot(Tail(a), Tail(b))

\* np.linalg.norm: the vectors of the model have integer norms
Norm(v) == LET d == Dot(v, v) IN CHOOSE n \in 0..d : n * n = d

\* np.dot(q, e) / (norm(q) * norm(e)): np.dot raises on vectors of different
\* length; a zero norm gives 0/0 = nan (a warning, no exception)
CosineTruncated(q, e) ==
    LET n == Min(Len(q), Len(e))
        norms == Norm(Take(q, n)) * Norm(Take(e, n))
    IN  IF norms = 0 THEN [kind |-> "nan", val |-> 0]
        ELSE [kind |-> "num", val |-> (100 * Dot(Take(q, n), Take(e, n))) \div norms]
Cosine(q, e) ==
    IF Len(q) # Len(e) THEN [kind |-> "raise", val |-> 0]
    ELSE LET norms == Norm(q) * Norm(e)
         IN  IF norms = 0 THEN [kind |-> "nan", val |-> 0]
             ELSE [kind |-> "num", val |-> (100 * Dot(q, e)) \div norms]

\* similarity >= match_threshold; every comparison with nan is False
AtOrAboveNanAsZero(sim, threshold) == sim.val >= threshold
AtOrAboveStrict(sim, threshold) == sim.kind = "num" /\ sim.val > threshold
AtOrAbove(sim, threshold) == sim.kind = "num" /\ sim.val >= threshold

\* {**item, "similarity": float(similarity)}
Scored(row, sim) ==
    [id |-> row.id, type |-> row.type, source_id |-> row.source_id,
     embedding |-> row.embedding, metadata |-> row.metadata, similarity |-> sim]

-----------------------------------------------------------------------------
(* SimilaritySearcher *)

\* metadata.get(key): the value under key, None when the key is absent
MetaGet(meta, key) ==
    IF \E p \in meta : p[1] = key THEN (CHOOSE p \in meta : p[1] = key)[2] ELSE None

\* _apply_metadata_filters: keep the items whose metadata.get(key) == value
\* for every filter pair, in order
ApplyMetadataFilters(items, filters) ==
    SelectSeq(items, LAMBDA it : \A f \in filters : MetaGet(it.metadata, f[1]) = f[2])

\* list.sort(key=similarity, reverse=True): descending and stable, items of
\* equal similarity keep their order
RECURSIVE InsertDesc(_, _)
InsertDesc(x, sorted) ==
    IF sorted = <<>> THEN <<x>>
    ELSE IF Head(sorted).similarity > x.similarity
         THEN <<Head(sorted)>> \o InsertDesc(x, Tail(sorted))
         ELSE <<x>> \o sorted

RECURSIVE SortBySimilarity(_)
SortBySimilarityUnsorted(items) == items
SortBySimilarity(items) ==
    IF items = <<>> THEN <<>>
    ELSE InsertDesc(Head(items), SortBySimilarity(Tail(items)))

\* query.eq("type", match_type) when match_type is given; .limit(1000)
FetchLimit == 1000
FetchRows(rows, match_type) ==
    Take(SelectSeq(rows, LAMBDA r : match_type = None \/ r.type = match_type), FetchLimit)

\* the loop of _search_fallback over result.data: score every fetched row
\* and keep those at or above the threshold
RECURSIVE ScoreAndKeep(_, _, _)
ScoreAndKeep(fetched, q, threshold) ==
    IF fetched = <<>> THEN <<>>
    ELSE LET sim == Cosine(q, Head(fetched).embedding)
             rest == ScoreAndKeep(Tail(fetched), q, threshold)
         IN  IF AtOrAbove(sim, threshold)
             THEN <<Scored(Head(fetched), sim.val)>> \o rest
             ELSE rest

\* does np.dot raise on some fetched row
DotRaises(fetched, q) ==
    \E i \in 1..Len(fetched) : Cosine(q, fetched[i].embedding).kind = "raise"

\* items_with_scores[:match_count]
TruncateNone(items, match_count) == items
Truncate(items, match_count) == Take(items, match_count)

\* _search_fallback(query_list, match_type, match_threshold, match_count, filters)
SearchFallback(rows, q, match_type, threshold, match_count, filters) ==
    LET fetched == FetchRows(rows, match_type)
        kept == ScoreAndKeep(fetched, q, threshold)
        sorted == SortBySimilarity(kept)
        filtered == IF filters # {} THEN ApplyMetadataFilters(sorted, filters) ELSE sorted
    IN  IF fetched = <<>> THEN [status |-> "ok", items |-> <<>>]
        ELSE IF DotRaises(fetched, q) THEN [status |-> "raised", items |-> <<>>]
        ELSE [status |-> "ok", items |-> Truncate(filtered, match_count)]

\* The store's search_similar_embeddings procedure (its SQL is not part of
\* the sources): the rows of the requested type whose cosine similarity to
\* the query is at or above the threshold, by descending similarity, at most
\* match_count of them.  Rows of equal similarity come in an order the
\* procedure does not fix: table order, or the reverse when tieRev.
RECURSIVE Reverse(_)
Reverse(seq) == IF seq = <<>> THEN <<>> ELSE Reverse(Tail(seq)) \o <<Head(seq)>>

RpcSearchSimilar(rows, q, match_type, threshold, match_count, tieRev) ==
    LET typed == SelectSeq(rows, LAMBDA r : match_type = None \/ r.type = match_type)
        kept == ScoreAndKeep(typed, q, threshold)
        sorted == SortBySimilarity(IF tieRev THEN Reverse(kept) ELSE kept)
    IN  IF DotRaises(typed, q) THEN [status |-> "raised", items |-> <<>>]
        ELSE [status |-> "ok", items |-> Take(sorted, match_count)]

\* what search does with the procedure's answer: similar_items = result.data,
\* filtered when filters are given
PrimaryResult(rpcItems, filters) ==
    IF filters # {} THEN ApplyMetadataFilters(rpcItems, filters) ELSE rpcItems

\* how the call of the procedure goes: it raises (procedure missing, no
\* connection), or it answers with one of the tie orders
RpcOutcomes == {"fails", "ties in table order", "ties reversed"}

\* the except clause of search: the fallback runs when the procedure call
\* raised
PrimaryFailedOrEmpty(rpcCall, rpc) ==
    rpcCall = "fails" \/ rpc.status = "raised" \/ rpc.items = <<>>
PrimaryFailed(rpcCall, rpc) == rpcCall = "fails" \/ rpc.status = "raised"

\* A search call: the path that produced its result, its arguments, how
\* the procedure call ended ("answered" or "raised"), what became of the
\* fallback's query of the table ("not issued", "answered" or "raised"), how
\* the call ended ("ok" or "raised") and the list it returned.
NoSearch ==
    [path |-> "none", q |-> <<>>, match_type |-> None, threshold |-> 0, count |-> 0,
     filters |-> {}, rpc |-> "none", fallbackQuery |-> "none",
     status |-> "none", items |-> <<>>]

\* search(query_embedding, match_type, match_threshold, match_count, filters):
\* the procedure call, and on any exception of it the fallback; rpcCall is
\* how the procedure call goes and answered whether the fallback's query of
\* the table is answered
SearchCall(q, mt, th, cnt, f, rpcCall, answered) ==
    LET rpc == RpcSearchSimilar(store, q, mt, th, cnt, rpcCall = "ties reversed")
        primary == ~PrimaryFailed(rpcCall, rpc)
        fb == SearchFallback(store, q, mt, th, cnt, f)
    IN  [path |-> IF primary THEN "primary" ELSE "fallback",
         q |-> q, match_type |-> mt, threshold |-> th, count |-> cnt,
         filters |-> f,
         rpc |-> IF rpcCall = "fails" \/ rpc.status = "raised"
                 THEN "raised" ELSE "answered",
         fallbackQuery |-> IF primary THEN "not issued"
                           ELSE IF answered THEN "answered" ELSE "raised",
         status |-> IF primary THEN "ok"
                    ELSE IF answered THEN fb.status ELSE "raised",
         items |-> IF primary THEN PrimaryResult(rpc.items, f)
                   ELSE IF answered THEN fb.items ELSE <<>>]

\* the fallback's query of the table is answered or raises; it is made only
\* when the procedure call raised
FallbackAnswers(q, mt, th, cnt, rpcCall) ==
    IF PrimaryFailed(rpcCall, RpcSearchSimilar(store, q, mt, th, cnt, rpcCall = "ties reversed"))
    THEN StoreAnswers ELSE {TRUE}

\* A find_related_incidents call: top_k, days_back, the match_count it passed
\* to search, how it ended, and the records it returned, each with its age
\* in days at the time of the call.
NoRelated ==
    [status |-> "none", top_k |-> 0, days_back |-> 0, requested |-> 0,
     candidates |-> <<>>, items |-> <<>>]

\* a caller calls search with one of the given query vectors
SearchWith(queries) ==
    /\ lastSearch = NoSearch
    /\ lastRelated = NoRelated
    /\ \E q \in queries, mt \in MatchTypes, th \in Thresholds, cnt \in Counts,
          f \in Filters, rpcCall \in RpcOutcomes :
           \E answered \in FallbackAnswers(q, mt, th, cnt, rpcCall) :
               lastSearch' = SearchCall(q, mt, th, cnt, f, rpcCall, answered)
    /\ UNCHANGED <<lastRelated, storeVars, chunkVars, rateVars, threadVars, embedVars>>

\* a caller calls search with a query of the stored vectors' dimension
Search == SearchWith(QueryVectors)

\* a caller calls search with a query of the stored vectors' dimension or of
\* another one
SearchAcrossModels == SearchWith(MixedQueries)

\* the caller takes the result; the searcher keeps nothing of the call
SearchReturn ==
    /\ lastSearch # NoSearch
    /\ lastSearch' = NoSearch
    /\ UNCHANGED <<lastRelated, storeVars, chunkVars, rateVars, threadVars, embedVars>>

\* source ids of the rows indexed for searching, one per row
SearchSourceIds == <<"repo/PR-1", "repo/PR-2", "repo/PR-3", "repo/PR-4">>

\* index one more item (index_pr / index_jira_issue) before searching
IndexForSearch ==
    /\ lastSearch = NoSearch
    /\ lastRelated = NoRelated
    /\ Len(store) < MaxRows
    /\ \E type \in EmbeddingTypes, emb \in StoredVectors, meta \in Metadatas :
           UpsertEmbedding(type, SearchSourceIds[Len(store) + 1], emb, meta)
    /\ lastSearch' = NoSearch
    /\ UNCHANGED <<lastBatch, indexing>>
    /\ UNCHANGED <<lastRelated, chunkVars, rateVars, threadVars, embedVars>>

\* find_related_incidents(pr_payload, top_k, threshold, days_back)
TopKs == {1, 2}
DaysBackChoices == {0, 1}
\* the age in days of a row, now minus its created_at, when the call is made
Ages == {0, 2}
\* created_at is assigned by the store; its text has a UTC offset (a
\* timestamptz column) or none (a timestamp column).  fromisoformat gives an
\* aware datetime for the first, and comparing it with the naive cutoff
\* datetime.now() - timedelta(days=days_back) raises TypeError.
CreatedAtForms == {"offset", "no offset"}

\* if days_back:
DateFilterApplies(days_back) == days_back # 0

\* created_at >= cutoff
WithinWindow(age, days_back) == age <= days_back

\* the record with its age, as the caller sees it through created_at
Dated(item, ages) ==
    [id |-> item.id, similarity |-> item.similarity,
     age |-> ages[CHOOSE i \in 1..Len(store) : store[i].id = item.id]]

FindRelatedIncidents ==
    /\ lastSearch = NoSearch
    /\ lastRelated = NoRelated
    /\ \E q \in QueryVectors, top_k \in TopKs, threshold \in Thresholds,
          days_back \in DaysBackChoices, rpcCall \in RpcOutcomes,
          ages \in [1..Len(store) -> Ages], form \in CreatedAtForms :
           \E answered \in FallbackAnswers(q, "jira_issue", threshold, top_k * 2, rpcCall) :
               LET found == SearchCall(q, "jira_issue", threshold, top_k * 2, {},
                                       rpcCall, answered)
                   similar_issues == [i \in 1..Len(found.items) |-> Dated(found.items[i], ages)]
                   recent == SelectSeq(similar_issues,
                                       LAMBDA issue : WithinWindow(issue.age, days_back))
                   call == [status |-> "ok", top_k |-> top_k, days_back |-> days_back,
                            requested |-> found.count, candidates |-> similar_issues,
                            items |-> <<>>]
               IN  lastRelated' =
                       IF found.status = "raised"
                       THEN [call EXCEPT !.status = "raised", !.candidates = <<>>]
                       ELSE IF ~DateFilterApplies(days_back)
                       THEN [call EXCEPT !.items = Take(similar_issues, top_k)]
                       ELSE IF similar_issues # <<>> /\ form = "offset"
                       THEN [call EXCEPT !.status = "raised"]
                       ELSE [call EXCEPT !.items = Take(recent, top_k)]
    /\ UNCHANGED <<lastSearch, storeVars, chunkVars, rateVars, threadVars, embedVars>>

\* the caller takes the incidents
RelatedReturn ==
    /\ lastRelated # NoRelated
    /\ lastRelated' = NoRelated
    /\ UNCHANGED <<lastSearch, storeVars, chunkVars, rateVars, threadVars, embedVars>>

-----------------------------------------------------------------------------
(* The tokenizer (tiktoken) *)

\* A text is a sequence of characters.  NL is the line break.
NL == "\n"
Chars == {"a", "b", NL}

\* The vocabulary: every character is a token, and as in a byte-pair
\* vocabulary some tokens hold several characters: "ab", and "b" with the
\* line break after it (as cl100k_base has ";\n" or ".\n").  A token is the
\* sequence of its characters.
MergedTokens == {<<"a", "b">>, <<"b", NL>>}

\* tokenizer.encode(text): at each position the longest token that matches
RECURSIVE Encode(_)
Encode(text) ==
    IF text = <<>> THEN <<>>
    ELSE IF Len(text) >= 2 /\ SubSeq(text, 1, 2) \in MergedTokens
         THEN <<SubSeq(text, 1, 2)>> \o Encode(SubSeq(text, 3, Len(text)))
         ELSE <<SubSeq(text, 1, 1)>> \o Encode(Tail(text))

\* tokenizer.decode(tokens): the characters of the tokens, in order
RECURSIVE Decode(_)
Decode(toks) == IF toks = <<>> THEN <<>> ELSE Head(toks) \o Decode(Tail(toks))

\* count_tokens(text)
CountTokens(text) == Len(Encode(text))

\* tokenizer.encode('\n')[0]
NewlineToken == Encode(<<NL>>)[1]

-----------------------------------------------------------------------------
(* EmbeddingsClient.chunk_text *)

\* text.split('\n')
RECURSIVE SplitLinesFrom(_, _)
SplitLinesFrom(text, line) ==
    IF text = <<>> THEN <<line>>
    ELSE IF Head(text) = NL THEN <<line>> \o SplitLinesFrom(Tail(text), <<>>)
         ELSE SplitLinesFrom(Tail(text), Append(line, Head(text)))

SplitLines(text) == SplitLinesFrom(text, <<>>)

\* for i in range(0, len(line_tokens), max_tokens): line_tokens[i:i + max_tokens]
RECURSIVE WindowsDroppingTail(_, _)
RECURSIVE Windows(_, _)
WindowsDroppingTail(line_tokens, max_tokens) ==
    IF Len(line_tokens) < max_tokens THEN <<>>
    ELSE <<SubSeq(line_tokens, 1, max_tokens)>>
             \o WindowsDroppingTail(SubSeq(line_tokens, max_tokens + 1, Len(line_tokens)),
                                    max_tokens)
Windows(line_tokens, max_tokens) ==
    IF line_tokens = <<>> THEN <<>>
    ELSE <<Take(line_tokens, max_tokens)>>
             \o Windows(SubSeq(line_tokens, max_tokens + 1, Len(line_tokens)), max_tokens)

\* current_chunk = line_tokens: the line that overflowed opens the next chunk
OpenChunkEmpty(line_tokens) == <<>>
OpenChunk(line_tokens) == line_tokens

\* the loop over the lines; chunks holds the token lists already flushed
RECURSIVE ChunkLines(_, _, _, _)
ChunkLines(lines, chunks, current_chunk, max_tokens) ==
    IF lines = <<>>
    THEN IF current_chunk # <<>> THEN Append(chunks, current_chunk) ELSE chunks
    ELSE LET line_tokens == Encode(Head(lines))
             flushed == IF current_chunk # <<>> THEN Append(chunks, current_chunk)
                        ELSE chunks
         IN  IF Len(current_chunk) + Len(line_tokens) > max_tokens
             THEN IF Len(line_tokens) > max_tokens
                  THEN ChunkLines(Tail(lines), flushed \o Windows(line_tokens, max_tokens),
                                  <<>>, max_tokens)
                  ELSE ChunkLines(Tail(lines), flushed, OpenChunk(line_tokens), max_tokens)
             ELSE ChunkLines(Tail(lines), chunks,
                             current_chunk \o line_tokens \o <<NewlineToken>>, max_tokens)

\* the early return: the whole text fits
FitsStrict(text, max_tokens) == Len(Encode(text)) < max_tokens
Fits(text, max_tokens) == Len(Encode(text)) <= max_tokens

\* the token lists chunk_text decodes into its chunks (for a text that fits,
\* the tokens of the text, which is returned as it is)
ChunkTokenLists(text, max_tokens) ==
    IF Fits(text, max_tokens) THEN <<Encode(text)>>
    ELSE ChunkLines(SplitLines(text), <<>>, <<>>, max_tokens)

\* chunk_text(text, max_tokens)
ChunkText(text, max_tokens) ==
    IF Fits(text, max_tokens) THEN <<text>>
    ELSE LET lists == ChunkTokenLists(text, max_tokens)
         IN  [i \in 1..Len(lists) |-> Decode(lists[i])]

\* the texts embed_single hands to _embed_chunk, in order: the preprocessed
\* text when it fits, else its chunks
EmbedChunkInputs(text, max_tokens) ==
    IF CountTokens(text) <= max_tokens THEN <<text>> ELSE ChunkText(text, max_tokens)

\* the largest text and the largest max_tokens of the model
MaxTextLen == 7
MaxMaxTokens == 3
Texts == UNION {[1..n -> Chars] : n \in 0..MaxTextLen}

ChunkInit ==
    /\ cText \in Texts
    /\ cMax \in 1..MaxMaxTokens
    /\ cDone = FALSE
    /\ cTokens = <<>>
    /\ cChunks = <<>>

ChunkIdle ==
    /\ cText = <<>>
    /\ cMax = 1
    /\ cDone = FALSE
    /\ cTokens = <<>>
    /\ cChunks = <<>>

\* a call chunk_text(cText, cMax)
ChunkTextCall ==
    /\ ~cDone
    /\ cDone' = TRUE
    /\ cTokens' = ChunkTokenLists(cText, cMax)
    /\ cChunks' = ChunkText(cText, cMax)
    /\ UNCHANGED <<cText, cMax, storeVars, searchVars, rateVars, threadVars, embedVars>>

-----------------------------------------------------------------------------
(* RateLimiter *)

\* Time is counted in ticks.  min_interval = 60 / rpm seconds is
\* TicksPerInterval ticks, so a minute is rpm * TicksPerInterval ticks and the
\* refill time_passed * (rpm / 60) is one token per TicksPerInterval ticks.
\* tokens is kept in units of 1 / TicksPerInterval token: one token is
\* TicksPerInterval units, and a tick refills one unit.
TicksPerInterval == 2
OneToken == TicksPerInterval
Minute == rpm * TicksPerInterval

MaxRpm == 2
MaxCalls == 4
MaxIdleTicks == 3

Threads == {1, 2}
MaxThreadCalls == 1
MaxThreadTicks == 2

\* min(self.rpm, self.tokens + time_passed * (self.rpm / 60.0))
RefillUncapped(current, time_passed) == current + time_passed
Refill(current, time_passed) == Min(rpm * OneToken, current + time_passed)

\* RateLimiter.__init__(requests_per_minute)
RateInit ==
    /\ rpm \in 1..MaxRpm
    /\ tokens = rpm * OneToken
    /\ last_update = 0
    /\ now = 0
    /\ admitTimes = <<>>
    /\ sleeps = 0
    /\ idleTicks = 0

RateIdle ==
    /\ rpm = 1
    /\ tokens = OneToken
    /\ last_update = 0
    /\ now = 0
    /\ admitTimes = <<>>
    /\ sleeps = 0
    /\ idleTicks = 0

ThreadsInit ==
    /\ pc = [t \in Threads |-> "idle"]
    /\ tNow = [t \in Threads |-> 0]
    /\ tPassed = [t \in Threads |-> 0]
    /\ tReg = [t \in Threads |-> 0]
    /\ tWake = [t \in Threads |-> 0]
    /\ tSlept = [t \in Threads |-> FALSE]
    /\ tCalls = [t \in Threads |-> 0]
    /\ quickAdmits = 0

\* wait_if_needed() called by the only thread that uses the limiter: refill,
\* stamp last_update, sleep min_interval when less than one token is left
\* and set tokens to 1, take one token, return
WaitIfNeededCall ==
    /\ LET refilled == Refill(tokens, now - last_update)
           mustSleep == refilled < OneToken
           returnsAt == IF mustSleep THEN now + TicksPerInterval ELSE now
       IN  /\ last_update' = now
           /\ now' = returnsAt
           /\ tokens' = (IF mustSleep THEN OneToken ELSE refilled) - OneToken
           /\ sleeps' = IF mustSleep THEN sleeps + 1 ELSE sleeps
           /\ admitTimes' = Append(admitTimes, returnsAt)
    /\ UNCHANGED <<rpm, idleTicks>>

\* a caller that does nothing else calls wait_if_needed()
WaitIfNeeded ==
    /\ Len(admitTimes) < MaxCalls
    /\ WaitIfNeededCall
    /\ UNCHANGED <<storeVars, searchVars, chunkVars, threadVars, embedVars>>

\* the caller does something else for a tick before its next call
CallerIdles ==
    /\ idleTicks < MaxIdleTicks
    /\ Len(admitTimes) < MaxCalls
    /\ now' = now + 1
    /\ idleTicks' = idleTicks + 1
    /\ UNCHANGED <<rpm, tokens, last_update, admitTimes, sleeps,
                   storeVars, searchVars, chunkVars, threadVars, embedVars>>

-----------------------------------------------------------------------------
(* Several threads calling wait_if_needed on one RateLimiter *)

\* The method takes no lock: a thread switch can fall between any two of
\* its loads and stores of self.tokens and self.last_update.  Each action
\* below is one such step of one thread.

otherThanThreads == <<storeVars, searchVars, chunkVars, embedVars>>

\* a thread enters wait_if_needed: now = time.time()
TReadClock(t) ==
    /\ pc[t] = "idle"
    /\ tCalls[t] < MaxThreadCalls
    /\ tNow' = [tNow EXCEPT ![t] = now]
    /\ tSlept' = [tSlept EXCEPT ![t] = FALSE]
    /\ pc' = [pc EXCEPT ![t] = "passed"]
    /\ UNCHANGED <<rateVars, tPassed, tReg, tWake, tCalls, quickAdmits, otherThanThreads>>

\* time_passed = now - self.last_update
TTimePassed(t) ==
    /\ pc[t] = "passed"
    /\ tPassed' = [tPassed EXCEPT ![t] = tNow[t] - last_update]
    /\ pc' = [pc EXCEPT ![t] = "refill load"]
    /\ UNCHANGED <<rateVars, tNow, tReg, tWake, tSlept, tCalls, quickAdmits, otherThanThreads>>

\* self.tokens = min(self.rpm, self.tokens + ...): the load of self.tokens
TRefillLoad(t) ==
    /\ pc[t] = "refill load"
    /\ tReg' = [tReg EXCEPT ![t] = tokens]
    /\ pc' = [pc EXCEPT ![t] = "refill store"]
    /\ UNCHANGED <<rateVars, tNow, tPassed, tWake, tSlept, tCalls, quickAdmits, otherThanThreads>>

\* ... and the store of the result
TRefillStore(t) ==
    /\ pc[t] = "refill store"
    /\ tokens' = Refill(tReg[t], tPassed[t])
    /\ pc' = [pc EXCEPT ![t] = "stamp"]
    /\ UNCHANGED <<rpm, last_update, now, admitTimes, sleeps, idleTicks,
                   tNow, tPassed, tReg, tWake, tSlept, tCalls, quickAdmits, otherThanThreads>>

\* self.last_update = now
TStamp(t) ==
    /\ pc[t] = "stamp"
    /\ last_update' = tNow[t]
    /\ pc' = [pc EXCEPT ![t] = "test"]
    /\ UNCHANGED <<rpm, tokens, now, admitTimes, sleeps, idleTicks,
                   tNow, tPassed, tReg, tWake, tSlept, tCalls, quickAdmits, otherThanThreads>>

\* if self.tokens < 1: time.sleep(self.min_interval) begins
TTest(t) ==
    /\ pc[t] = "test"
    /\ IF tokens < OneToken
       THEN /\ pc' = [pc EXCEPT ![t] = "sleep"]
            /\ tWake' = [tWake EXCEPT ![t] = now + TicksPerInterval]
            /\ tSlept' = [tSlept EXCEPT ![t] = TRUE]
       ELSE /\ pc' = [pc EXCEPT ![t] = "take load"]
            /\ UNCHANGED <<tWake, tSlept>>
    /\ UNCHANGED <<rateVars, tNow, tPassed, tReg, tCalls, quickAdmits, otherThanThreads>>

\* the sleep is over: self.tokens = 1
TWakeUp(t) ==
    /\ pc[t] = "sleep"
    /\ now >= tWake[t]
    /\ tokens' = OneToken
    /\ pc' = [pc EXCEPT ![t] = "take load"]
    /\ UNCHANGED <<rpm, last_update, now, admitTimes, sleeps, idleTicks,
                   tNow, tPassed, tReg, tWake, tSlept, tCalls, quickAdmits, otherThanThreads>>

\* self.tokens -= 1: the load of self.tokens
TTakeLoad(t) ==
    /\ pc[t] = "take load"
    /\ tReg' = [tReg EXCEPT ![t] = tokens]
    /\ pc' = [pc EXCEPT ![t] = "take store"]
    /\ UNCHANGED <<rateVars, tNow, tPassed, tWake, tSlept, tCalls, quickAdmits, otherThanThreads>>

\* ... the store of the result, and the return
TTakeStore(t) ==
    /\ pc[t] = "take store"
    /\ tokens' = tReg[t] - OneToken
    /\ pc' = [pc EXCEPT ![t] = "idle"]
    /\ tCalls' = [tCalls EXCEPT ![t] = tCalls[t] + 1]
    /\ quickAdmits' = IF tSlept[t] THEN quickAdmits ELSE quickAdmits + 1
    /\ admitTimes' = Append(admitTimes, now)
    /\ UNCHANGED <<rpm, last_update, now, sleeps, idleTicks,
                   tNow, tPassed, tReg, tWake, tSlept, otherThanThreads>>

\* the clock advances
ClockTick ==
    /\ now < MaxThreadTicks
    /\ now' = now + 1
    /\ UNCHANGED <<rpm, tokens, last_update, admitTimes, sleeps, idleTicks,
                   threadVars, otherThanThreads>>

ThreadStep(t) ==
    \/ TReadClock(t) \/ TTimePassed(t) \/ TRefillLoad(t) \/ TRefillStore(t)
    \/ TStamp(t) \/ TTest(t) \/ TWakeUp(t) \/ TTakeLoad(t) \/ TTakeStore(t)

-----------------------------------------------------------------------------
(* EmbeddingsClient: preprocess_text, embed_single, _embed_chunk,           *)
(* embed_batch, _embed_batch_api                                            *)

\* Texts given to the client.  Besides the characters of Chars a text can
\* hold "u", a URL, and "k", an assignment of a secret; each is one token.
\* anonymize_code replaces a URL by the placeholder URL_PLACEHOLDER, which
\* is several tokens (here "P", "H"); hash_sensitive_content replaces a
\* secret by HASHED_ and a digest (here "D").
RECURSIVE AnonymizeCode(_)
AnonymizeCode(text) ==
    IF text = <<>> THEN <<>>
    ELSE IF Head(text) = "u" THEN <<"P", "H">> \o AnonymizeCode(Tail(text))
         ELSE <<Head(text)>> \o AnonymizeCode(Tail(text))

RECURSIVE HashSensitiveContent(_)
HashSensitiveContent(text) ==
    IF text = <<>> THEN <<>>
    ELSE IF Head(text) = "k" THEN <<"D">> \o HashSensitiveContent(Tail(text))
         ELSE <<Head(text)>> \o HashSensitiveContent(Tail(text))

\* preprocess_text(text)
PreprocessText(text, c) ==
    LET anonymized == IF c.anonymize_code THEN AnonymizeCode(text) ELSE text
    IN  IF c.hash_sensitive_data THEN HashSensitiveContent(anonymized) ELSE anonymized

\* the configurations of the model
Providers == {"openai", "azure", "local"}
MaxTokenChoices == {1, 2}
MaxBatchSize == 2
\* the privacy options are both off (the defaults of EmbeddingConfig) or both
\* on (the configuration SupabaseIndexer and SimilaritySearcher build)
Configs ==
    {c \in [provider : Providers, max_tokens : MaxTokenChoices, batch_size : 1..MaxBatchSize,
            anonymize_code : BOOLEAN, hash_sensitive_data : BOOLEAN] :
        c.anonymize_code = c.hash_sensitive_data}

\* the texts and the lists of texts the callers pass
EmbedTexts == {<<"k">>, <<"u">>, <<"a", NL, "a">>}
MaxBatchTexts == 2
BatchInputs == UNION {[1..n -> EmbedTexts] : n \in 0..MaxBatchTexts}

\* what a call of the provider can do: answer with a vector (the providers
\* answer with unit vectors), signal a rate limit (openai.RateLimitError), or
\* raise another exception: a timeout, or the refusal of the request (a bad
\* key, a bad model name, an input the provider rejects)
NegX == <<-1, 0>>
ProviderVectors == {UnitX, NegX}
NoVector == <<>>
ProviderFailures == {"rate_limit", "timeout", "invalid_request"}

\* max_retries and retry_delay of _embed_chunk
MaxRetries == 3
RetryDelay == 1

RECURSIVE Pow2(_)
Pow2(n) == IF n = 0 THEN 1 ELSE 2 * Pow2(n - 1)

\* the sleep after the failed attempt: retry_delay * (2 ** attempt)
BackoffConstant(attempt) == RetryDelay
Backoff(attempt) == RetryDelay * Pow2(attempt)

\* after a failed attempt: sleep and go round the loop again, or re-raise
AfterFailure(attempt) == IF attempt < MaxRetries - 1 THEN "retry" ELSE "raise"

\* np.array(embedding, dtype=np.float32) / embedding.astype(np.float32): the
\* coordinates of the model's vectors are exact in float32
AsFloat32Zero(v) == [i \in 1..Len(v) |-> 0]
AsFloat32(v) == v

\* np.mean(embeddings, axis=0) divided by its norm: the unit vector in the
\* direction of the sum of the chunk vectors, and nan coordinates (0 / 0)
\* when the sum is the zero vector
RECURSIVE VecSum(_)
VecSum(vecs) ==
    IF Len(vecs) = 1 THEN Head(vecs)
    ELSE LET rest == VecSum(Tail(vecs))
         IN  [i \in 1..Len(rest) |-> Head(vecs)[i] + rest[i]]

AveragePool(vecs) ==
    LET sum == VecSum(vecs)
    IN  IF Dot(sum, sum) = 0 THEN [kind |-> "nan", dir |-> sum]
        ELSE [kind |-> "unit", dir |-> sum]

\* texts[i:i + batch_size] for i in range(0, len(texts), batch_size)
RECURSIVE Batches(_, _)
Batches(texts, batch_size) ==
    IF texts = <<>> THEN <<>>
    ELSE <<Take(texts, batch_size)>>
             \o Batches(SubSeq(texts, batch_size + 1, Len(texts)), batch_size)

\* any(count_tokens(t) > max_tokens for t in processed_batch)
NeedsChunkingRaw(batch, c) ==
    \E i \in 1..Len(batch) : CountTokens(batch[i]) > c.max_tokens
NeedsChunking(batch, c) ==
    \E i \in 1..Len(batch) : CountTokens(PreprocessText(batch[i], c)) > c.max_tokens

\* The running call.  op is the method the caller called, pc where it is:
\* at a provider call of _embed_chunk, at the provider call of
\* _embed_batch_api, returned, or raised.
EmbIdle ==
    [op |-> "none", pc |-> "idle", input |-> <<>>,
     \* _embed_chunk: its text, the loop variable, the failed attempts and
     \* the sleeps of this call, and how its latest call ended
     text |-> <<>>, attempt |-> 0, failures |-> 0, backoff |-> <<>>,
     chunkOutcome |-> [status |-> "none", value |-> NoVector],
     \* embed_single: the chunks still to embed, whether the text was
     \* chunked, and the chunk vectors so far
     chunks |-> <<>>, pooled |-> FALSE, chunkVecs |-> <<>>,
     \* embed_batch: the batches still to process, the texts of the current
     \* batch still to pass to embed_single, batch_embeddings, embeddings,
     \* the input of the pending _embed_batch_api call, and for every batch
     \* begun what was done with it
     batches |-> <<>>, singles |-> <<>>, batchVecs |-> <<>>, embeddings |-> <<>>,
     apiInput |-> <<>>, batchLog |-> <<>>,
     \* calls of wait_if_needed made so far; the calls of wait_if_needed and
     \* of the provider made by the latest _embed_chunk or _embed_batch_api
     \* call; the texts sent to the provider so far; the vector the latest
     \* successful provider call produced
     admits |-> 0, waits |-> 0, calls |-> 0, sent |-> {}, produced |-> NoVector,
     \* the exception the latest provider call raised, "none" when it answered
     failure |-> "none",
     result |-> [status |-> "none", value |-> NoVector]]

\* _embed_chunk(text) up to its first provider call: wait_if_needed(), then
\* attempt 0
StartEmbedChunk(e, text) ==
    [e EXCEPT !.pc = "provider call", !.text = text, !.attempt = 0, !.failures = 0,
              !.backoff = <<>>, !.admits = @ + 1, !.waits = 1, !.calls = 0,
              !.failure = "none"]

\* embed_single(text) up to the first provider call
StartEmbedSingle(e, c, raw) ==
    LET text == PreprocessText(raw, c)
        inputs == EmbedChunkInputs(text, c.max_tokens)
    IN  StartEmbedChunk([e EXCEPT !.pooled = CountTokens(text) > c.max_tokens,
                                  !.chunks = Tail(inputs), !.chunkVecs = <<>>],
                        Head(inputs))

\* the body of embed_batch's loop for the next batch, up to the first
\* provider call
StartBatch(e, c) ==
    LET batch == Head(e.batches)
        processed_batch == [i \in 1..Len(batch) |-> PreprocessText(batch[i], c)]
    IN  IF NeedsChunking(batch, c)
        THEN StartEmbedSingle(
                 [e EXCEPT !.batches = Tail(@), !.singles = Tail(batch), !.batchVecs = <<>>,
                           !.batchLog = Append(@, [batch |-> batch, mode |-> "embed_single",
                                                   apiCalls |-> 0, apiInput |-> <<>>,
                                                   singles |-> <<Head(batch)>>])],
                 c, Head(batch))
        ELSE [e EXCEPT !.batches = Tail(@), !.pc = "batch provider call",
                       !.apiInput = processed_batch, !.admits = @ + 1,
                       !.waits = 1, !.calls = 0,
                       !.batchLog = Append(@, [batch |-> batch, mode |-> "batch api",
                                               apiCalls |-> 0, apiInput |-> <<>>,
                                               singles |-> <<>>])]

\* the loop of embed_batch goes on, or embed_batch returns embeddings
NextBatchOrReturn(e, c) ==
    IF e.batches = <<>>
    THEN [e EXCEPT !.pc = "returned",
                   !.result = [status |-> "returned", value |-> e.embeddings]]
    ELSE StartBatch(e, c)

\* embed_single returns value: to the caller, or into the list
\* [self.embed_single(t) for t in batch] of embed_batch
SingleReturned(e, c, value) ==
    IF e.op = "embed_single"
    THEN [e EXCEPT !.pc = "returned", !.result = [status |-> "returned", value |-> value]]
    ELSE LET batch_embeddings == Append(e.batchVecs, value)
         IN  IF e.singles # <<>>
             THEN StartEmbedSingle(
                      [e EXCEPT !.batchVecs = batch_embeddings, !.singles = Tail(@),
                                !.batchLog[Len(e.batchLog)].singles = Append(@, Head(e.singles))],
                      c, Head(e.singles))
             ELSE NextBatchOrReturn([e EXCEPT !.batchVecs = <<>>,
                                              !.embeddings = @ \o batch_embeddings], c)

\* _embed_chunk returns v: embed_single returns it when the text was not
\* chunked, else embeds the next chunk or pools the chunk vectors
ChunkReturned(e, c, v) ==
    LET e1 == [e EXCEPT !.chunkOutcome = [status |-> "returned", value |-> v]]
        embeddings == Append(e.chunkVecs, v)
    IN  IF ~e.pooled THEN SingleReturned(e1, c, v)
        ELSE IF e.chunks # <<>>
        THEN StartEmbedChunk([e1 EXCEPT !.chunkVecs = embeddings, !.chunks = Tail(@)],
                             Head(e.chunks))
        ELSE SingleReturned([e1 EXCEPT !.chunkVecs = embeddings], c, AveragePool(embeddings))

\* an exception leaves _embed_chunk; embed_single and embed_batch catch nothing
ChunkRaisedPoolsTheRest(e) ==
    [e EXCEPT !.pc = "returned", !.chunkOutcome = [status |-> "raised", value |-> NoVector],
              !.result = [status |-> "returned", value |-> e.chunkVecs]]
ChunkRaised(e) ==
    [e EXCEPT !.pc = "raised", !.chunkOutcome = [status |-> "raised", value |-> NoVector],
              !.result = [status |-> "raised", value |-> NoVector]]

\* the calls of wait_if_needed made on the way from e to r
Admission(e, r) == IF r.admits > e.admits THEN WaitIfNeededCall ELSE UNCHANGED rateVars

otherThanEmbed == <<storeVars, searchVars, chunkVars, threadVars>>

\* a caller calls embed_single(raw)
CallEmbedSingle ==
    /\ client.pc = "idle"
    /\ \E raw \in EmbedTexts :
           LET r == StartEmbedSingle([client EXCEPT !.op = "embed_single", !.input = <<raw>>],
                                     config, raw)
           IN  client' = r /\ Admission(client, r)
    /\ UNCHANGED <<config, otherThanEmbed>>

\* a caller calls embed_batch(texts)
CallEmbedBatch ==
    /\ client.pc = "idle"
    /\ \E texts \in BatchInputs :
           LET r == NextBatchOrReturn(
                        [client EXCEPT !.op = "embed_batch", !.input = texts,
                                    !.batches = Batches(texts, config.batch_size)],
                        config)
           IN  client' = r /\ Admission(client, r)
    /\ UNCHANGED <<config, otherThanEmbed>>

\* the provider call of _embed_chunk (client.embeddings.create for openai and
\* azure, client.encode for local) answers or raises, and _embed_chunk goes
\* on to its next provider call or ends
EmbedChunkProviderCall ==
    /\ client.pc = "provider call"
    /\ LET e == [client EXCEPT !.calls = @ + 1, !.sent = @ \cup {client.text}]
       IN  \/ \E v \in ProviderVectors :
                  LET r == ChunkReturned([e EXCEPT !.produced = v, !.failure = "none"],
                                         config, AsFloat32(v))
                  IN  client' = r /\ Admission(client, r)
           \/ \E failure \in ProviderFailures :
                  LET failed == [e EXCEPT !.failures = @ + 1, !.failure = failure]
                      r == IF AfterFailure(client.attempt) = "retry"
                           THEN [failed EXCEPT !.backoff = Append(@, Backoff(client.attempt)),
                                               !.attempt = @ + 1]
                           ELSE ChunkRaised(failed)
                  IN  client' = r /\ Admission(client, r)
    /\ UNCHANGED <<config, otherThanEmbed>>

\* the provider call of _embed_batch_api answers with one vector per text, or
\* raises and the exception leaves embed_batch
EmbedBatchProviderCall ==
    /\ client.pc = "batch provider call"
    /\ LET n == Len(client.batchLog)
           e == [client EXCEPT !.calls = @ + 1,
                            !.sent = @ \cup {client.apiInput[i] : i \in 1..Len(client.apiInput)},
                            !.batchLog[n].apiCalls = @ + 1,
                            !.batchLog[n].apiInput = client.apiInput]
       IN  \/ \E vs \in [1..Len(client.apiInput) -> ProviderVectors] :
                  LET r == NextBatchOrReturn(
                               [e EXCEPT !.embeddings = @ \o [i \in 1..Len(vs) |-> AsFloat32(vs[i])]],
                               config)
                  IN  client' = r /\ Admission(client, r)
           \/ \E failure \in ProviderFailures :
                  /\ client' = [e EXCEPT !.pc = "raised", !.failure = failure,
                                      !.result = [status |-> "raised", value |-> NoVector]]
                  /\ UNCHANGED rateVars
    /\ UNCHANGED <<config, otherThanEmbed>>

EmbedInit ==
    /\ config \in Configs
    /\ client = EmbIdle

EmbedIdle ==
    /\ config = [provider |-> "openai", max_tokens |-> 1, batch_size |-> 1,
                 anonymize_code |-> FALSE, hash_sensitive_data |-> FALSE]
    /\ client = EmbIdle

-----------------------------------------------------------------------------
(* SupabaseIndexer.index_pr / index_jira_issue on the embeddings client *)

\* content[:5000], and "\n... (truncated)" after it when content is longer
ContentLimit == 5000
TruncationMark == <<NL, ".", ".", ".">>
TruncateContent(content) ==
    IF Len(content) > ContentLimit THEN Take(content, ContentLimit) \o TruncationMark
    ELSE Take(content, ContentLimit)

\* index_pr / index_jira_issue up to the first provider call: content is the
\* text extracted from the payload, and embed_single(content) begins
CallIndex ==
    /\ indexing = NoIndexing
    /\ client.pc = "idle"
    /\ \E type \in EmbeddingTypes, sid \in SourceIds, content \in EmbedTexts :
           LET r == StartEmbedSingle([client EXCEPT !.op = "embed_single",
                                                    !.input = <<content>>],
                                     config, content)
           IN  /\ client' = r
               /\ Admission(client, r)
               /\ indexing' = [status |-> "embedding", type |-> type, source_id |-> sid,
                               content |-> content, stored |-> None]
    /\ UNCHANGED <<store, nextId, schemaUnique, lastUpsert, upserts, lastOp, lastBatch>>
    /\ UNCHANGED <<config, searchVars, chunkVars, threadVars>>

\* embed_single returned the embedding: the metadata and the source_id are
\* built and upsert_embedding sends the record, with content_truncated as
\* its content, to the store, which answers or raises
IndexUpserts ==
    /\ indexing.status = "embedding"
    /\ client.pc = "returned"
    /\ \E answered \in StoreAnswers :
           LET content_truncated == TruncateContent(indexing.content)
               r == TableUpsert(store, schemaUnique, nextId, indexing.type,
                                indexing.source_id, client.result.value, ItemMetadata, NoId)
               ok == answered /\ r.ok
           IN  /\ store' = IF ok THEN r.rows ELSE store
               /\ nextId' = IF ok THEN r.fresh ELSE nextId
               /\ lastUpsert' = [type |-> indexing.type, source_id |-> indexing.source_id,
                                 metadata |-> ItemMetadata,
                                 outcome |-> IF ok THEN "returned" ELSE "raised"]
               /\ upserts' = upserts + 1
               /\ lastOp' = OpRecord("upsert_embedding", indexing.source_id, ~ok, 1,
                                      IF ok THEN "returned" ELSE "raised",
                                      IF ok THEN <<r.row>> ELSE None)
               /\ indexing' = [indexing EXCEPT !.status = IF ok THEN "returned" ELSE "raised",
                                               !.stored = content_truncated]
    /\ UNCHANGED <<schemaUnique, lastBatch>>
    /\ UNCHANGED <<searchVars, chunkVars, rateVars, threadVars, embedVars>>

\* embed_single raised: the exception leaves index_pr / index_jira_issue and
\* nothing is sent to the store
IndexEmbeddingRaised ==
    /\ indexing.status = "embedding"
    /\ client.pc = "raised"
    /\ indexing' = [indexing EXCEPT !.status = "raised"]
    /\ UNCHANGED <<store, nextId, schemaUnique, lastUpsert, upserts, lastOp, lastBatch>>
    /\ UNCHANGED <<searchVars, chunkVars, rateVars, threadVars, embedVars>>

-----------------------------------------------------------------------------
(* Specifications *)

\* indexing: any sequence of index_pr / index_jira_issue calls
InitStore ==
    StoreInit /\ lastSearch = NoSearch /\ lastRelated = NoRelated /\ ChunkIdle /\ RateIdle
        /\ ThreadsInit /\ EmbedIdle
NextStore == IndexItem
SpecStore == InitStore /\ [][NextStore]_vars

\* the indexer's methods in any order, the store answering or raising
InitStoreOps == InitStore
NextStoreOps == IndexItem \/ DeleteEmbedding \/ CheckIfExists \/ GetStats
SpecStoreOps == InitStoreOps /\ [][NextStoreOps]_vars

\* batch indexing: index_batch calls on any items, the embedding and the
\* store failing or not at every item
InitBatch == InitStore
NextBatch == IndexBatch \/ BatchReturn
SpecBatch == InitBatch /\ [][NextBatch]_vars

\* searching: index a few items, then search
InitSearch ==
    StoreInit /\ schemaUnique = "none" /\ lastSearch = NoSearch /\ lastRelated = NoRelated
        /\ ChunkIdle /\ RateIdle
        /\ ThreadsInit /\ EmbedIdle
NextSearch == IndexForSearch \/ Search \/ SearchReturn
SpecSearch == InitSearch /\ [][NextSearch]_vars

\* related incidents: index a few items, then call find_related_incidents
InitRelated == InitSearch
NextRelated == IndexForSearch \/ FindRelatedIncidents \/ RelatedReturn
SpecRelated == InitRelated /\ [][NextRelated]_vars

\* searching with queries of two dimensions: index a few items, then search
InitSearchMixed == InitSearch
NextSearchMixed == IndexForSearch \/ SearchAcrossModels \/ SearchReturn
SpecSearchMixed == InitSearchMixed /\ [][NextSearchMixed]_vars

\* chunking: one call of chunk_text on any text and budget
StoreIdle ==
    /\ store = <<>>
    /\ nextId = 1
    /\ schemaUnique = "none"
    /\ lastUpsert = NoUpsert
    /\ upserts = 0
    /\ lastOp = NoOp
    /\ lastBatch = NoBatch
    /\ indexing = NoIndexing
    /\ lastSearch = NoSearch
    /\ lastRelated = NoRelated

InitChunk == ChunkInit /\ StoreIdle /\ RateIdle /\ ThreadsInit /\ EmbedIdle
NextChunk == ChunkTextCall
SpecChunk == InitChunk /\ [][NextChunk]_vars

\* rate limiting: one thread calls wait_if_needed on a fresh limiter, idling
\* or not between calls
InitRate == RateInit /\ ThreadsInit /\ StoreIdle /\ ChunkIdle /\ EmbedIdle
NextRate == WaitIfNeeded \/ CallerIdles
SpecRate == InitRate /\ [][NextRate]_vars

\* rate limiting: the threads call wait_if_needed on one fresh limiter
InitThreads == RateInit /\ ThreadsInit /\ StoreIdle /\ ChunkIdle /\ EmbedIdle
NextThreads == ClockTick \/ \E t \in Threads : ThreadStep(t)
SpecThreads == InitThreads /\ [][NextThreads]_vars

\* embedding: one call of embed_single or embed_batch on a client with a
\* fresh limiter of one request per minute, the provider answering or
\* failing at every call
InitEmbed == EmbedInit /\ RateIdle /\ ThreadsInit /\ StoreIdle /\ ChunkIdle
NextEmbed ==
    CallEmbedSingle \/ CallEmbedBatch \/ EmbedChunkProviderCall \/ EmbedBatchProviderCall
SpecEmbed == InitEmbed /\ [][NextEmbed]_vars

\* indexing one payload: index_pr or index_jira_issue on a client with a
\* fresh limiter, the provider and the store answering or failing
InitIndex == InitEmbed
NextIndex == CallIndex \/ EmbedChunkProviderCall \/ IndexUpserts \/ IndexEmbeddingRaised
SpecIndex == InitIndex /\ [][NextIndex]_vars

-----------------------------------------------------------------------------
(* C1: upsert keyed on (type, source_id) *)

\* C1 (as claimed): after any sequence of upsert_embedding calls made without
\* an embedding_id, the table holds at most one row per (type, source_id),
\* and the pair of the latest call has exactly one row, which carries the
\* metadata of that call.
C1_OneRowPerSourceLatestMetadata ==
    /\ \A i, j \in 1..Len(store) :
           (store[i].type = store[j].type /\ store[i].source_id = store[j].source_id)
               => i = j
    /\ lastUpsert.outcome # "none" =>
           /\ Cardinality(RowsOf(store, lastUpsert.type, lastUpsert.source_id)) = 1
           /\ \A i \in RowsOf(store, lastUpsert.type, lastUpsert.source_id) :
                  store[i].metadata = lastUpsert.metadata

-----------------------------------------------------------------------------
(* C2, C3: the result list of search *)

\* the rows of the requested type at or above the threshold, scored, in
\* table order
Qualifying(rows, q, match_type, threshold) ==
    ScoreAndKeep(SelectSeq(rows, LAMBDA r : match_type = None \/ r.type = match_type),
                 q, threshold)

DistinctSimilarities(items) ==
    \A i, j \in 1..Len(items) : items[i].similarity = items[j].similarity => i = j

\* C2: the list search returns, on the primary path and on the fallback
\* path, is in non-increasing similarity order, holds only items of
\* similarity >= threshold, and is no longer than count.
C2_ResultOrderedAboveThresholdWithinCount ==
    lastSearch.status = "ok" =>
        LET items == lastSearch.items
        IN  /\ \A i \in 1..(Len(items) - 1) :
                   items[i].similarity >= items[i + 1].similarity
            /\ \A i \in 1..Len(items) : items[i].similarity >= lastSearch.threshold
            /\ Len(items) <= lastSearch.count

\* a fallback search with metadata filters returned two items of different
\* similarity that the table holds in the opposite order
C2_Witness ==
    /\ lastSearch.path = "fallback"
    /\ lastSearch.status = "ok"
    /\ lastSearch.filters # {}
    /\ Len(lastSearch.items) = 2
    /\ lastSearch.items[1].similarity > lastSearch.items[2].similarity
    /\ lastSearch.items[1].id > lastSearch.items[2].id

\* C3 (as claimed): with the same rows and the same arguments, metadata
\* filters included, a search answered by the primary procedure returns the
\* list _search_fallback returns.
C3_PrimaryEqualsFallback ==
    lastSearch.path = "primary" =>
        LET fb == SearchFallback(store, lastSearch.q, lastSearch.match_type,
                                 lastSearch.threshold, lastSearch.count, lastSearch.filters)
        IN  fb.status = "ok" /\ lastSearch.items = fb.items

\* C3 (amended): the two lists are the same when no metadata filters are
\* given, no two qualifying rows have the same similarity, and the table
\* holds at most FetchLimit rows of the requested type.
C3_PrimaryEqualsFallbackUnfilteredNoTies ==
    ( /\ lastSearch.path = "primary"
      /\ lastSearch.filters = {}
      /\ Len(SelectSeq(store, LAMBDA r : lastSearch.match_type = None
                                          \/ r.type = lastSearch.match_type)) <= FetchLimit
      /\ DistinctSimilarities(Qualifying(store, lastSearch.q, lastSearch.match_type,
                                         lastSearch.threshold)) )
    =>
        LET fb == SearchFallback(store, lastSearch.q, lastSearch.match_type,
                                 lastSearch.threshold, lastSearch.count, lastSearch.filters)
        IN  fb.status = "ok" /\ lastSearch.items = fb.items

\* an unfiltered primary search whose count cut off one of two qualifying
\* rows of different similarity, the better one stored second
C3_Witness ==
    /\ lastSearch.path = "primary"
    /\ lastSearch.filters = {}
    /\ lastSearch.count = 1
    /\ Len(lastSearch.items) = 1
    /\ LET qual == Qualifying(store, lastSearch.q, lastSearch.match_type,
                              lastSearch.threshold)
       IN  /\ Len(qual) = 2
           /\ qual[1].similarity < qual[2].similarity
           /\ lastSearch.items[1].id = qual[2].id

-----------------------------------------------------------------------------
(* C4 - C7: chunk_text *)

RECURSIVE Flatten(_)
Flatten(lists) == IF lists = <<>> THEN <<>> ELSE Head(lists) \o Flatten(Tail(lists))

WithoutNewlineTokens(toks) == SelectSeq(toks, LAMBDA t : t # NewlineToken)

\* the tokens of the lines of the text, line after line
LineTokens(text) ==
    LET lines == SplitLines(text)
    IN  Flatten([i \in 1..Len(lines) |-> Encode(lines[i])])

CeilDiv(n, m) == (n + m - 1) \div m

\* C4 (as claimed): every chunk chunk_text returns holds at most max_tokens
\* tokens, and so does every text embed_single hands to _embed_chunk.
C4_EveryChunkWithinBudget ==
    cDone =>
        /\ \A i \in 1..Len(cChunks) : CountTokens(cChunks[i]) <= cMax
        /\ LET inputs == EmbedChunkInputs(cText, cMax)
           IN  \A i \in 1..Len(inputs) : CountTokens(inputs[i]) <= cMax

\* C5: a text of at most max_tokens tokens comes back as the one-element
\* list holding the text itself.
C5_FittingTextReturnedUnchanged ==
    (cDone /\ CountTokens(cText) <= cMax) => cChunks = <<cText>>

\* a text of several lines and exactly max_tokens tokens was returned whole
C5_Witness ==
    /\ cDone
    /\ CountTokens(cText) = cMax
    /\ Len(SplitLines(cText)) >= 2
    /\ cChunks = <<cText>>

\* C6 (as claimed): the tokens of the returned chunks, chunk after chunk,
\* newline tokens left out, are the tokens of the lines of the text, line
\* after line.
C6_ChunkStringsCarryLineTokens ==
    cDone =>
        WithoutNewlineTokens(Flatten([i \in 1..Len(cChunks) |-> Encode(cChunks[i])]))
            = LineTokens(cText)

\* C6 (amended): for a text over the budget, the token lists chunk_text
\* decodes into its chunks, one after the other and without the newline
\* tokens it appends, are the tokens of the lines of the text, line after
\* line: no line token is dropped, duplicated or reordered.
C6_ChunkTokenListsCarryLineTokens ==
    (cDone /\ CountTokens(cText) > cMax) =>
        /\ Len(cChunks) = Len(cTokens)
        /\ \A i \in 1..Len(cChunks) : cChunks[i] = Decode(cTokens[i])
        /\ WithoutNewlineTokens(Flatten(cTokens)) = LineTokens(cText)

\* a text over the budget was split into several chunks, one of which
\* tokenizes differently from the token list it was decoded from
C6_Witness ==
    /\ cDone
    /\ CountTokens(cText) > cMax
    /\ Len(cChunks) >= 2
    /\ \E i \in 1..Len(cChunks) : Encode(cChunks[i]) # cTokens[i]

\* C7: a line of n > max_tokens tokens yields ceil(n / max_tokens)
\* consecutive chunks that are the windows of its tokens, each of at most
\* max_tokens tokens and all but the last of exactly max_tokens; a text that
\* is one line of 3 * max_tokens tokens yields at least 3 chunks.
C7_LongLineSplitIntoWindows ==
    cDone =>
        LET lines == SplitLines(cText)
        IN  /\ \A k \in 1..Len(lines) :
                   LET lt == Encode(lines[k])
                       n == Len(lt)
                       w == CeilDiv(n, cMax)
                   IN  n > cMax =>
                         \E o \in 0..Len(cChunks) :
                           \A j \in 1..w :
                             /\ o + j <= Len(cChunks)
                             /\ cTokens[o + j] = SubSeq(lt, (j - 1) * cMax + 1, Min(j * cMax, n))
                             /\ cChunks[o + j] = Decode(cTokens[o + j])
                             /\ CountTokens(cChunks[o + j]) <= cMax
                             /\ j < w => CountTokens(cChunks[o + j]) = cMax
            /\ (Len(lines) = 1 /\ CountTokens(cText) = 3 * cMax) =>
                   /\ Len(cChunks) >= 3
                   /\ \A i \in 1..Len(cChunks) : CountTokens(cChunks[i]) <= cMax

\* a single line of 3 * max_tokens tokens, max_tokens >= 2, holding a
\* multi-character token, was split into three chunks
C7_Witness ==
    /\ cDone
    /\ Len(SplitLines(cText)) = 1
    /\ cMax >= 2
    /\ CountTokens(cText) = 3 * cMax
    /\ Len(cText) > 3 * cMax
    /\ Len(cChunks) = 3

-----------------------------------------------------------------------------
(* C8, C9: one thread and the RateLimiter *)

\* the calls that returned in the minute ending at time t: in (t - Minute, t]
AdmittedInMinuteTo(t) ==
    {j \in 1..Len(admitTimes) : admitTimes[j] <= t /\ admitTimes[j] > t - Minute}

\* C8 (as claimed): in any trailing 60-second window at most rpm calls of
\* wait_if_needed return.
C8_AtMostRpmAdmissionsPerMinute ==
    \A i \in 1..Len(admitTimes) :
        Cardinality(AdmittedInMinuteTo(admitTimes[i])) <= rpm

\* C9 (as claimed): N back-to-back calls on a fresh limiter take at least
\* (N - rpm) * 60 / rpm seconds when N > rpm, and sleep not at all when
\* N <= rpm.
C9_BackToBackCallsTakeFullIntervals ==
    idleTicks = 0 =>
        LET N == Len(admitTimes)
        IN  /\ N > rpm => now >= (N - rpm) * TicksPerInterval
            /\ N <= rpm => (sleeps = 0 /\ now = 0)

-----------------------------------------------------------------------------
(* C10: threads and the RateLimiter *)

\* C10 (as claimed): the calls that return without sleeping never take more
\* tokens than were available: the rpm tokens of the fresh limiter and what
\* the time elapsed since has refilled.
C10_NoTokenConsumedTwice ==
    quickAdmits * OneToken <= rpm * OneToken + now

-----------------------------------------------------------------------------
(* C11 - C14: _embed_chunk and embed_batch *)

\* C11: a call of _embed_chunk whose provider calls all fail ends in an
\* error after max_retries = 3 attempts, never more; after the failed
\* attempt number a (from 0) it has slept 1 * 2^a seconds before the next
\* attempt, and after the last failed attempt it has not slept.
C11_AllFailuresEndWithinRetries ==
    /\ client.attempt < MaxRetries
    /\ client.failures <= MaxRetries
    /\ client.failures = client.calls =>
           client.backoff = [a \in 1..Min(client.failures, MaxRetries - 1) |-> 1 * Pow2(a - 1)]
    /\ client.failures = MaxRetries =>
           /\ client.pc = "raised"
           /\ client.chunkOutcome.status = "raised"
           /\ client.calls = MaxRetries
           /\ Len(client.backoff) = MaxRetries - 1
    /\ (client.pc = "provider call" /\ client.failures = client.calls) =>
           client.attempt = client.failures

\* every attempt of a call of _embed_chunk failed and the call raised, having
\* slept 1 s and 2 s
C11_Witness ==
    /\ client.pc = "raised"
    /\ client.chunkOutcome.status = "raised"
    /\ client.failures = 3
    /\ client.calls = 3
    /\ client.backoff = <<1, 2>>

\* C12: a call of _embed_chunk that returns, returns the vector its
\* successful provider call produced, and a call all of whose attempts failed
\* raises; it never returns a zero, default or missing vector.
C12_ReturnsProvidedVectorOrRaises ==
    /\ client.chunkOutcome.status = "returned" =>
           /\ client.chunkOutcome.value = client.produced
           /\ client.produced \in ProviderVectors
           /\ client.chunkOutcome.value # NoVector
           /\ \E i \in 1..Len(client.chunkOutcome.value) : client.chunkOutcome.value[i] # 0
    /\ client.chunkOutcome.status = "raised" =>
           (client.pc = "raised" /\ client.result.status = "raised")
    /\ client.failures = MaxRetries => client.chunkOutcome.status = "raised"
    /\ (client.op = "embed_single" /\ client.pc = "returned" /\ ~client.pooled) =>
           client.result.value = client.produced

\* a call of _embed_chunk returned the vector of its third attempt, the first
\* two having failed
C12_Witness ==
    /\ client.chunkOutcome.status = "returned"
    /\ client.failures = 2
    /\ client.calls = 3
    /\ client.chunkOutcome.value = NegX

\* C13 (as claimed): every provider call is preceded by its own call of
\* wait_if_needed: a call of _embed_chunk or of _embed_batch_api has made as
\* many wait_if_needed calls as provider calls when it ends, and never fewer.
C13_EveryProviderCallAdmitted ==
    /\ client.calls <= client.waits
    /\ client.pc \in {"returned", "raised"} => client.waits = client.calls

\* C14: embed_batch takes the texts in consecutive batches of at most
\* batch_size; a batch none of whose preprocessed texts exceeds max_tokens
\* gets exactly one provider call, which carries the whole preprocessed
\* batch, and no embed_single call; a batch with a preprocessed text over
\* max_tokens gets no batch call and every text of it goes through
\* embed_single, in order.
C14_BatchCallOrSinglesPerBatch ==
    client.op = "embed_batch" =>
        LET log == client.batchLog
            texts == client.input
            size == config.batch_size
            finished == IF client.pc = "returned" THEN Len(log) ELSE Len(log) - 1
            over(batch) == \E j \in 1..Len(batch) :
                               CountTokens(PreprocessText(batch[j], config)) > config.max_tokens
        IN  /\ \A i \in 1..Len(log) :
                   /\ log[i].batch = SubSeq(texts, (i - 1) * size + 1, Min(i * size, Len(texts)))
                   /\ Len(log[i].batch) >= 1
                   /\ Len(log[i].batch) <= size
                   /\ over(log[i].batch) => log[i].apiCalls = 0
                   /\ ~over(log[i].batch) => (log[i].singles = <<>> /\ log[i].apiCalls <= 1)
            /\ client.pc = "returned" => Len(log) = CeilDiv(Len(texts), size)
            /\ \A i \in 1..finished :
                   IF over(log[i].batch)
                   THEN log[i].apiCalls = 0 /\ log[i].singles = log[i].batch
                   ELSE /\ log[i].apiCalls = 1
                        /\ log[i].singles = <<>>
                        /\ log[i].apiInput =
                               [j \in 1..Len(log[i].batch) |-> PreprocessText(log[i].batch[j], config)]

\* embed_batch returned after a batch sent in one provider call and a batch
\* passed to embed_single whose text is over max_tokens only once preprocessed
C14_Witness ==
    /\ client.op = "embed_batch"
    /\ client.pc = "returned"
    /\ Len(client.batchLog) = 2
    /\ client.batchLog[1].apiCalls = 1
    /\ client.batchLog[2].apiCalls = 0
    /\ client.batchLog[2].singles = client.batchLog[2].batch
    /\ \A j \in 1..Len(client.batchLog[2].batch) :
           CountTokens(client.batchLog[2].batch[j]) <= config.max_tokens

-----------------------------------------------------------------------------
(* C15, C16: delete_embedding and store errors *)

\* C15: a delete_embedding call that the store answers returns True whether
\* or not a row had the source_id, and leaves no row with it; a
\* delete_embedding call that follows an answered delete_embedding call for
\* the same source_id leaves the table as it was.
C15_DeleteIsIdempotent ==
    /\ [](( lastOp.op = "delete_embedding" /\ ~lastOp.storeError ) =>
             /\ lastOp.outcome = "returned"
             /\ lastOp.value = TRUE
             /\ \A i \in 1..Len(store) : store[i].source_id # lastOp.source_id)
    /\ [][( /\ lastOp.op = "delete_embedding"
            /\ ~lastOp.storeError
            /\ lastOp'.op = "delete_embedding"
            /\ lastOp'.source_id = lastOp.source_id ) => store' = store]_vars

\* delete_embedding was called a second time in a row for a source_id, found
\* no row, and returned True; rows of another source_id are still there
C15_Witness ==
    /\ lastOp.op = "delete_embedding"
    /\ lastOp.repeated
    /\ ~lastOp.storeError
    /\ lastOp.outcome = "returned"
    /\ lastOp.value = TRUE
    /\ Len(store) >= 1
    /\ upserts > Len(store)

\* C16 (as claimed): a call of upsert_embedding, delete_embedding,
\* check_if_exists or get_stats that the store answers with an error ends by
\* raising, after exactly one request to the store.
C16_StoreErrorPropagatesAfterOneCall ==
    lastOp.storeError => (lastOp.outcome = "raised" /\ lastOp.storeCalls = 1)

-----------------------------------------------------------------------------
(* C17 - C19: search, its fallback and the metadata filters *)

C18_PassingRecordsHoldEveryFilterPair ==
    (lastSearch.status = "ok" /\ lastSearch.filters # {}) =>
        \A i \in 1..Len(lastSearch.items) :
            \A f \in lastSearch.filters :
                \E p \in lastSearch.items[i].metadata : p[1] = f[1] /\ p[2] = f[2]

\* C19: on the fallback path no row with a zero-norm vector is returned,
\* nothing is returned when the query vector has zero norm, and, the table
\* query answered and the dimensions equal, the search does not fail; this
\* for every threshold, zero included.
C19_ZeroNormExcludedNeverFails ==
    lastSearch.path = "fallback" =>
        /\ \A i \in 1..Len(lastSearch.items) : Dot(lastSearch.items[i].embedding,
                                                   lastSearch.items[i].embedding) # 0
        /\ Dot(lastSearch.q, lastSearch.q) = 0 => lastSearch.items = <<>>
        /\ ( /\ lastSearch.fallbackQuery = "answered"
             /\ \A i \in 1..Len(store) : Len(store[i].embedding) = Len(lastSearch.q) )
           => lastSearch.status = "ok"

\* a fallback search with threshold 0 over a table holding a zero-norm row of
\* the requested type returned other rows and not that one
C19_Witness ==
    /\ lastSearch.path = "fallback"
    /\ lastSearch.status = "ok"
    /\ lastSearch.threshold = 0
    /\ lastSearch.filters = {}
    /\ \E i \in 1..Len(store) :
           /\ store[i].embedding = ZeroVec
           /\ lastSearch.match_type \in {None, store[i].type}
    /\ Len(lastSearch.items) >= 1
    /\ Len(lastSearch.items) < lastSearch.count

-----------------------------------------------------------------------------
(* C20: find_related_incidents *)

\* C20 (as claimed): find_related_incidents asks search for 2 * top_k
\* candidates and, for every days_back >= 0, zero included, returns at most
\* top_k of them, each created not before now - days_back, in the order
\* search returned them.
C20_RelatedWithinWindowInSearchOrder ==
    lastRelated.status = "ok" =>
        LET items == lastRelated.items
            candidates == lastRelated.candidates
        IN  /\ lastRelated.requested = 2 * lastRelated.top_k
            /\ Len(items) <= lastRelated.top_k
            /\ \A i \in 1..Len(items) : items[i].age <= lastRelated.days_back
            /\ \E pos \in [1..Len(items) -> 1..Len(candidates)] :
                   /\ \A i \in 1..Len(items) : candidates[pos[i]] = items[i]
                   /\ \A i \in 1..(Len(items) - 1) : pos[i] < pos[i + 1]

-----------------------------------------------------------------------------
(* C21: a query of another dimension *)

\* the rows a search with this type filter compares the query with have a
\* vector of another dimension than the query among them
ComparesOtherDimension(q, match_type) ==
    LET fetched == FetchRows(store, match_type)
    IN  \E i \in 1..Len(fetched) : Len(fetched[i].embedding) # Len(q)

\* C21: when a stored vector that search compares with the query has another
\* dimension than the query, search raises and returns no list: the
\* procedure call raises, the fallback runs, and, its query of the table
\* answered, its np.dot raises on the two shapes (the table query failing,
\* search raises the store's error).
C21_DimensionMismatchRaises ==
    (lastSearch.path # "none" /\ ComparesOtherDimension(lastSearch.q, lastSearch.match_type))
        => /\ lastSearch.status = "raised"
           /\ lastSearch.items = <<>>
           /\ lastSearch.rpc = "raised"
           /\ lastSearch.path = "fallback"

\* a search with a three-coordinate query over a table of two-coordinate
\* vectors, one of them equal to the query's first two coordinates: the
\* fallback's table query was answered and the search raised
C21_Witness ==
    /\ lastSearch.q = UnitX3
    /\ \E i \in 1..Len(store) :
           /\ store[i].embedding = UnitX
           /\ lastSearch.match_type \in {None, store[i].type}
    /\ lastSearch.threshold = 100
    /\ lastSearch.fallbackQuery = "answered"
    /\ lastSearch.status = "raised"

-----------------------------------------------------------------------------
(* C22: index_batch *)

\* the positions of the items index_batch printed an error for
FailedPositions == {lastBatch.printed[k].item : k \in 1..Len(lastBatch.printed)}

\* the positions 1..n without the failed ones, ascending
RECURSIVE SucceededFrom(_, _)
SucceededFrom(i, n) ==
    IF i > n THEN <<>>
    ELSE IF i \in FailedPositions THEN SucceededFrom(i + 1, n)
    ELSE <<i>> \o SucceededFrom(i + 1, n)

\* C22: index_batch returns and does not raise; it takes up every item once,
\* in input order, also after a failed one; it prints one line for every
\* failed item, with the item's position and the exception's text, in input
\* order, and an item whose embedding or upsert failed is among them; the
\* list it returns holds, in input order, the rows stored for the other
\* items, and those are the rows the table gained.
C22_BatchContinuesPastFailures ==
    lastBatch.status # "none" =>
        LET n == Len(lastBatch.items)
            printed == lastBatch.printed
            results == lastBatch.results
            succeeded == SucceededFrom(1, n)
        IN  /\ lastBatch.status = "returned"
            /\ lastBatch.attempted = [i \in 1..n |-> i]
            /\ \A k \in 1..Len(printed) :
                   printed[k].item \in 1..n /\ printed[k].why # "none"
            /\ \A k \in 1..(Len(printed) - 1) : printed[k].item < printed[k + 1].item
            /\ \A i \in 1..n :
                   lastBatch.items[i].fate # "store answers" => i \in FailedPositions
            /\ Len(results) = Len(succeeded)
            /\ \A k \in 1..Len(results) :
                   /\ results[k].source_id = lastBatch.items[succeeded[k]].source_id
                   /\ results[k].type = lastBatch.item_type
            /\ SubSeq(store, lastBatch.rowsBefore + 1, Len(store)) = results

\* a batch whose first item failed in the embedding and whose second item
\* was stored: one printed line for item 1, one returned row, of item 2
C22_Witness ==
    /\ lastBatch.status = "returned"
    /\ Len(lastBatch.items) = 2
    /\ lastBatch.items[1].fate = "embedding raises"
    /\ lastBatch.items[1].source_id # lastBatch.items[2].source_id
    /\ lastBatch.printed = <<[item |-> 1, why |-> "embedding failed"]>>
    /\ Len(lastBatch.results) = 1
    /\ lastBatch.results[1].source_id = lastBatch.items[2].source_id

-----------------------------------------------------------------------------
(* C23: an upserted record is found *)

\* cosine(q, v) >= t, from the definition of the cosine
CosineAtLeast(q, v, t) ==
    /\ Len(q) = Len(v)
    /\ Norm(q) * Norm(v) # 0
    /\ (100 * Dot(q, v)) \div (Norm(q) * Norm(v)) >= t

\* C23: a search with a type filter, without metadata filters, that
\* returned a list, over a table of at most FetchLimit rows: every row of
\* the type whose vector has cosine >= threshold with the query, fewer than
\* count other rows of the type having it too, is in the list with that
\* cosine as its similarity; and no row of the list has a cosine below the
\* threshold.
C23_UpsertedRecordFound ==
    ( /\ lastSearch.status = "ok"
      /\ lastSearch.match_type # None
      /\ lastSearch.filters = {}
      /\ Len(store) <= FetchLimit )
    =>
        LET q == lastSearch.q
            t == lastSearch.threshold
            typed == {i \in 1..Len(store) : store[i].type = lastSearch.match_type}
            above == {i \in typed : CosineAtLeast(q, store[i].embedding, t)}
        IN  /\ \A i \in above :
                   Cardinality(above \ {i}) < lastSearch.count =>
                       \E k \in 1..Len(lastSearch.items) :
                           /\ lastSearch.items[k].id = store[i].id
                           /\ lastSearch.items[k].embedding = store[i].embedding
                           /\ lastSearch.items[k].similarity
                                  = Cosine(q, store[i].embedding).val
            /\ \A k \in 1..Len(lastSearch.items) :
                   /\ lastSearch.items[k].type = lastSearch.match_type
                   /\ CosineAtLeast(q, lastSearch.items[k].embedding, t)

\* the fallback searched two rows of the type with the vector of one of them
\* and threshold 1: it returned exactly that row, with similarity 1, and not
\* the other, whose cosine with the query is 0.6
C23_Witness ==
    /\ lastSearch.path = "fallback"
    /\ lastSearch.status = "ok"
    /\ lastSearch.match_type = "pr"
    /\ lastSearch.filters = {}
    /\ lastSearch.q = UnitX
    /\ lastSearch.threshold = 100
    /\ lastSearch.count = 2
    /\ \E i, j \in 1..Len(store) :
           /\ store[i].type = "pr" /\ store[i].embedding = UnitX
           /\ store[j].type = "pr" /\ store[j].embedding = Vec34
           /\ Len(lastSearch.items) = 1
           /\ lastSearch.items[1].id = store[i].id
           /\ lastSearch.items[1].similarity = 100

-----------------------------------------------------------------------------
(* C24: the texts that leave the process *)

\* every text sent to the provider is the preprocessed form, or a chunk of
\* the preprocessed form, of a text the caller passed
ProviderInputsPreprocessed ==
    \A t \in client.sent :
        \E i \in 1..Len(client.input) :
            LET inputs == EmbedChunkInputs(PreprocessText(client.input[i], config),
                                           config.max_tokens)
            IN  \E k \in 1..Len(inputs) : inputs[k] = t

\* C24 (as claimed): with both privacy options on, every text sent to the
\* provider by embed_single / embed_batch is (a chunk of) the output of
\* preprocess_text, and the content field index_pr / index_jira_issue send
\* to the store is the output of preprocess_text on the extracted text, cut
\* at the content limit.
C24_OnlyPreprocessedTextLeaves ==
    (config.anonymize_code /\ config.hash_sensitive_data) =>
        /\ ProviderInputsPreprocessed
        /\ indexing.stored # None =>
               indexing.stored = TruncateContent(PreprocessText(indexing.content, config))

-----------------------------------------------------------------------------
(* C25: the pooled vector *)

\* C25 (as claimed): when embed_single returns the pooled vector of k >= 1
\* unit chunk vectors of one dimension, the vector is defined and has norm
\* 1 (the unit vector in the direction of the chunk vectors' sum), and for
\* k = 1 it is the chunk vector itself.
C25_PooledVectorHasUnitNorm ==
    (client.op = "embed_single" /\ client.pc = "returned" /\ client.pooled) =>
        /\ \A i \in 1..Len(client.chunkVecs) :
               Len(client.chunkVecs[i]) = Len(client.chunkVecs[1])
               /\ Dot(client.chunkVecs[i], client.chunkVecs[i]) = 1
        /\ client.result.value.kind = "unit"
        /\ Len(client.chunkVecs) = 1 => client.result.value.dir = client.chunkVecs[1]

-----------------------------------------------------------------------------
(* C26: a chunk that fails *)

\* C26: in embed_single on a text over the budget, the chunks are embedded
\* one at a time in the order chunk_text gave them; embed_single raises
\* exactly when _embed_chunk has failed on all its attempts for a chunk,
\* and then it has returned no vector, has pooled nothing, and the chunks
\* after the failed one have not been embedded; it returns only after every
\* chunk has its vector.
C26_ChunkFailureFailsTheDocument ==
    (client.op = "embed_single" /\ client.pooled) =>
        LET inputs == EmbedChunkInputs(PreprocessText(client.input[1], config),
                                       config.max_tokens)
            done == Len(client.chunkVecs)
        IN  /\ client.pc \in {"provider call", "raised"} =>
                   /\ done < Len(inputs)
                   /\ client.text = inputs[done + 1]
                   /\ client.chunks = SubSeq(inputs, done + 2, Len(inputs))
                   /\ client.admits = done + 1
            /\ client.failures = MaxRetries <=> client.pc = "raised"
            /\ client.pc = "raised" =>
                   /\ client.result = [status |-> "raised", value |-> NoVector]
                   /\ client.calls = MaxRetries
            /\ client.pc = "returned" =>
                   /\ done = Len(inputs)
                   /\ client.result.status = "returned"

\* embed_single raised at the first of two chunks: no chunk vector, the
\* second chunk not embedded, one wait_if_needed call in all
C26_Witness ==
    /\ client.op = "embed_single"
    /\ client.pooled
    /\ client.pc = "raised"
    /\ client.chunkVecs = <<>>
    /\ Len(client.chunks) = 1
    /\ client.admits = 1
    /\ client.result.status = "raised"

-----------------------------------------------------------------------------
(* C27: the bucket of one caller *)

\* C27: the bucket starts within 0..rpm tokens, and every wait_if_needed
\* call of the only caller leaves it within 0..rpm tokens, sleeps not at all
\* or once for 60 / rpm seconds, and sleeps exactly when the refilled bucket
\* (the tokens before the call plus the time passed since the last call
\* times rpm / 60, at most rpm) holds less than one token.
C27_TokensBoundedOneSleepPerCall ==
    /\ rpm >= 1 /\ tokens >= 0 /\ tokens <= rpm * OneToken
    /\ [][ Len(admitTimes') = Len(admitTimes) + 1 =>
               LET available == Min(rpm * OneToken, tokens + (now - last_update))
                   slept == now' - now
               IN  /\ tokens' >= 0 /\ tokens' <= rpm * OneToken
                   /\ slept \in {0, TicksPerInterval}
                   /\ sleeps' - sleeps = (IF slept = 0 THEN 0 ELSE 1)
                   /\ slept # 0 <=> available < OneToken
                   /\ tokens' = (IF slept # 0 THEN 0 ELSE available - OneToken) ]_vars

\* two calls without a pause on a limiter of one request per minute: the
\* first returned at once, the second slept one interval, the bucket is empty
C27_Witness ==
    /\ rpm = 1
    /\ idleTicks = 0
    /\ Len(admitTimes) = 2
    /\ admitTimes[1] = 0
    /\ admitTimes[2] = TicksPerInterval
    /\ sleeps = 1
    /\ tokens = 0

-----------------------------------------------------------------------------
(* C28: the provider call of a batch *)

\* C28 (as claimed): when embed_batch raises out of the provider call it
\* made for a whole batch, that call has been tried MaxRetries times, with
\* the sleeps of _embed_chunk between the tries.
C28_BatchCallRetriedLikeChunkCall ==
    ( /\ client.op = "embed_batch"
      /\ client.pc = "raised"
      /\ client.batchLog[Len(client.batchLog)].mode = "batch api" )
    =>
        /\ client.batchLog[Len(client.batchLog)].apiCalls = MaxRetries
        /\ client.calls = MaxRetries
        /\ client.backoff = [attempt \in 1..(MaxRetries - 1) |-> Backoff(attempt - 1)]

-----------------------------------------------------------------------------
(* C29: which failures are retried *)

\* the transient conditions: the rate-limit signal and the timeout
TransientFailures == {"rate_limit", "timeout"}

\* C29 (as claimed): _embed_chunk goes to another attempt only after a
\* transient failure; any other exception of the provider call ends
\* _embed_chunk at once: one provider call made, no sleep.
C29_OnlyTransientFailuresRetried ==
    client.chunkOutcome.status # "returned" =>
        /\ (client.pc = "provider call" /\ client.attempt > 0) =>
               client.failure \in TransientFailures
        /\ (client.pc \in {"provider call", "raised"}
              /\ client.failure \notin TransientFailures \cup {"none"}) =>
               /\ client.pc = "raised"
               /\ client.calls = 1
               /\ client.backoff = <<>>

-----------------------------------------------------------------------------
(* C30: what delete_embedding removes *)

\* C30: a delete_embedding(s) call that the store answers leaves no row with
\* source_id s, of whatever type, and leaves the rows of every other
\* source_id as they were, in their order; a check_if_exists(s) call that
\* follows it and that the store answers returns None.
C30_DeleteRemovesEveryRowOfSource ==
    [][ /\ ( lastOp'.op = "delete_embedding" /\ ~lastOp'.storeError ) =>
               /\ \A i \in 1..Len(store') : store'[i].source_id # lastOp'.source_id
               /\ \E kept \in [1..Len(store') -> 1..Len(store)] :
                      /\ \A i \in 1..Len(store') : store'[i] = store[kept[i]]
                      /\ \A i \in 1..(Len(store') - 1) : kept[i] < kept[i + 1]
                      /\ \A j \in 1..Len(store) :
                             store[j].source_id # lastOp'.source_id =>
                                 \E i \in 1..Len(store') : kept[i] = j
        /\ ( /\ lastOp.op = "delete_embedding"
             /\ ~lastOp.storeError
             /\ lastOp'.op = "check_if_exists"
             /\ lastOp'.source_id = lastOp.source_id
             /\ ~lastOp'.storeError ) =>
               /\ lastOp'.outcome = "returned"
               /\ lastOp'.value = None ]_vars

\* delete_embedding(s) was answered on a table that held two rows of s and,
\* between them, a row of another source_id: the rows of s are gone, the
\* other row is there
C30_Witness ==
    /\ lastOp.op = "delete_embedding"
    /\ ~lastOp.storeError
    /\ ~lastOp.repeated
    /\ upserts = 3
    /\ Len(store) = 1
    /\ store[1].source_id # lastOp.source_id
    /\ store[1].id = 2

=============================================================================
